---- MODULE Spec2Model ----
(***************************************************************************)
(* Model of aws/s3/core.go: the request builders list, get, del,           *)
(* getObject, put and putObject, the canonical-string signers and the      *)
(* key escaping.  Strings are sequences of bytes (code points 0..255).     *)
(***************************************************************************)
EXTENDS Integers, Sequences, FiniteSets, TLC

(***************************************************************************)
(* Strings as byte sequences.                                              *)
(***************************************************************************)
\* The printable ASCII characters in code order, 32 (space) .. 126 (~); the
\* quotes, the backtick and the backslash are written by name.
Printable ==
  << " ", "!", "dquote", "#", "$", "%", "&", "apostrophe", "(", ")", "*", "+", ",", "-", ".", "/",
     "0", "1", "2", "3", "4", "5", "6", "7", "8", "9", ":", ";", "<", "=", ">", "?",
     "@", "A", "B", "C", "D", "E", "F", "G", "H", "I", "J", "K", "L", "M", "N", "O",
     "P", "Q", "R", "S", "T", "U", "V", "W", "X", "Y", "Z", "[", "backslash", "]", "^", "_",
     "backtick", "a", "b", "c", "d", "e", "f", "g", "h", "i", "j", "k", "l", "m", "n", "o",
     "p", "q", "r", "s", "t", "u", "v", "w", "x", "y", "z", "{", "|", "}", "~" >>

\* The byte of each printable character.
Code == [c \in {Printable[i] : i \in 1..Len(Printable)} |->
           31 + (CHOOSE i \in 1..Len(Printable) : Printable[i] = c)]

\* The byte of a one-character literal.
Ord(c) == IF c = "\n" THEN 10 ELSE Code[c]

\* The bytes of a string literal.
B(s) == [i \in 1..Len(s) |-> Ord(SubSeq(s, i, i))]

RECURSIVE Concat(_)
\* strings.Join(parts, ""): the concatenation of a sequence of strings.
Concat(parts) ==
  IF parts = <<>> THEN <<>> ELSE Head(parts) \o Concat(Tail(parts))

\* strings.Index(s, c) for a single byte c; 0 when c does not occur.
IndexByte(s, c) ==
  IF \E i \in 1..Len(s) : s[i] = c
    THEN CHOOSE i \in 1..Len(s) : s[i] = c /\ \A j \in 1..(i - 1) : s[j] # c
    ELSE 0

\* The last index of byte c in s; 0 when c does not occur.
LastIndexByte(s, c) ==
  IF \E i \in 1..Len(s) : s[i] = c
    THEN CHOOSE i \in 1..Len(s) : s[i] = c /\ \A j \in (i + 1)..Len(s) : s[j] # c
    ELSE 0

\* strings.Count(s, c) for a single byte c.
CountByte(s, c) == Cardinality({i \in 1..Len(s) : s[i] = c})

\* s[from:] with a 1-based first index.
From(s, from) == SubSeq(s, from, Len(s))

RECURSIVE Decimal(_)
\* fmt.Sprintf("%d", n) for n >= 0.
Decimal(n) ==
  IF n < 10 THEN <<48 + n>> ELSE Decimal(n \div 10) \o <<48 + (n % 10)>>

\* Two decimal digits, zero padded (the 02, 15, 04, 05 layout fields).
Pad2(n) == <<48 + (n \div 10), 48 + (n % 10)>>

\* The Go conversion string(n) of an integer: NOT the decimal rendering but
\* the UTF-8 encoding of the code point n (U+FFFD when n is no valid code point).
RuneString(n) ==
  IF n < 0 \/ n > 1114111 \/ (n >= 55296 /\ n <= 57343) THEN <<239, 191, 189>>
  ELSE IF n < 128 THEN <<n>>
  ELSE IF n < 2048 THEN <<192 + (n \div 64), 128 + (n % 64)>>
  ELSE IF n < 65536
    THEN <<224 + (n \div 4096), 128 + ((n \div 64) % 64), 128 + (n % 64)>>
  ELSE <<240 + (n \div 262144), 128 + ((n \div 4096) % 64),
         128 + ((n \div 64) % 64), 128 + (n % 64)>>

(***************************************************************************)
(* net/url as used by esc, createURL, list and http.NewRequest.            *)
(***************************************************************************)
IsAlnum(c) ==
  \/ (c >= 48 /\ c <= 57)
  \/ (c >= 65 /\ c <= 90)
  \/ (c >= 97 /\ c <= 122)

IsHex(c) ==
  \/ (c >= 48 /\ c <= 57)
  \/ (c >= 65 /\ c <= 70)
  \/ (c >= 97 /\ c <= 102)

UnHex(c) ==
  IF c >= 48 /\ c <= 57 THEN c - 48
  ELSE IF c >= 97 /\ c <= 102 THEN c - 97 + 10
  ELSE c - 65 + 10

\* "0123456789ABCDEF"[n]
UpperHex(n) == IF n < 10 THEN 48 + n ELSE 65 + (n - 10)

\* The reserved characters $ & + , / : ; = ? @ of RFC 3986 section 2.2.
Reserved == {Ord("$"), Ord("&"), Ord("+"), Ord(","), Ord("/"), Ord(":"),
             Ord(";"), Ord("="), Ord("?"), Ord("@")}

\* url.shouldEscape(c, mode) for the modes "path", "query" (a query
\* component) and "fragment".
shouldEscape(c, mode) ==
  IF IsAlnum(c) THEN FALSE
  ELSE IF c \in {Ord("-"), Ord("_"), Ord("."), Ord("~")} THEN FALSE
  ELSE IF c \in Reserved
    THEN CASE mode = "path" -> c = Ord("?")
           [] mode = "query" -> TRUE
           [] OTHER -> FALSE
  ELSE IF mode = "fragment" /\ c \in {Ord("!"), Ord("("), Ord(")"), Ord("*")}
    THEN FALSE
  ELSE TRUE

\* url.escape(s, mode): a space becomes + in a query component, every other
\* byte that must be escaped becomes %XX in upper-case hex.
escape(s, mode) ==
  Concat([i \in 1..Len(s) |->
    IF shouldEscape(s[i], mode)
      THEN IF s[i] = Ord(" ") /\ mode = "query"
             THEN <<Ord("+")>>
             ELSE <<Ord("%"), UpperHex(s[i] \div 16), UpperHex(s[i] % 16)>>
      ELSE <<s[i]>>])

\* url.QueryEscape(s)
QueryEscape(s) == escape(s, "query")

\* The first pass of url.unescape: every % is followed by two hex digits.
ValidEscapes(s) ==
  \A i \in 1..Len(s) :
    s[i] = Ord("%") => (i + 2 <= Len(s) /\ IsHex(s[i + 1]) /\ IsHex(s[i + 2]))

RECURSIVE unescapeFrom(_, _, _)
unescapeFrom(s, i, mode) ==
  IF i > Len(s) THEN <<>>
  ELSE IF s[i] = Ord("%")
    THEN <<16 * UnHex(s[i + 1]) + UnHex(s[i + 2])>> \o unescapeFrom(s, i + 3, mode)
  ELSE IF s[i] = Ord("+") /\ mode = "query"
    THEN <<Ord(" ")>> \o unescapeFrom(s, i + 1, mode)
  ELSE <<s[i]>> \o unescapeFrom(s, i + 1, mode)

\* url.unescape(s, mode), defined where ValidEscapes(s) holds.
unescape(s, mode) == unescapeFrom(s, 1, mode)

\* url.validEncoded(s, mode)
validEncoded(s, mode) ==
  \A i \in 1..Len(s) :
    \/ s[i] \in {Ord("!"), Ord("$"), Ord("&"), Ord("apostrophe"), Ord("("), Ord(")"),
                 Ord("*"), Ord("+"), Ord(","), Ord(";"), Ord("="), Ord(":"),
                 Ord("@"), Ord("["), Ord("]"), Ord("%")}
    \/ ~shouldEscape(s[i], mode)

\* The fixed endpoint every URL of the package starts with.
Endpoint ==
  B("https://s3.amazonaws.com")

\* The result of a failed url.Parse: a nil *url.URL.
NilURL == [nil |-> TRUE]

\* url.stringContainsCTLByte(s)
stringContainsCTLByte(s) == \E i \in 1..Len(s) : s[i] < 32 \/ s[i] = 127

\* url.Parse(rawURL) for rawURL = Endpoint + rest, rest starting with "/":
\* cut the fragment at the first #, reject control bytes, cut the query at
\* the first ? (a lone trailing ? only forces the query), unescape the path
\* and keep RawPath when the raw path is not the default encoding of the
\* path (so that /a%2Fb is sent as it was written).
Parse(rawURL) ==
  LET rest0 == From(rawURL, Len(Endpoint) + 1)
      h     == IndexByte(rest0, Ord("#"))
      u     == IF h = 0 THEN rest0 ELSE SubSeq(rest0, 1, h - 1)
      frag  == IF h = 0 THEN <<>> ELSE From(rest0, h + 1)
      force == u # <<>> /\ u[Len(u)] = Ord("?") /\ CountByte(u, Ord("?")) = 1
      q     == IndexByte(u, Ord("?"))
      p     == IF q = 0 THEN u ELSE SubSeq(u, 1, q - 1)
      query == IF force \/ q = 0 THEN <<>> ELSE From(u, q + 1)
      path  == unescape(p, "path")
  IN  IF stringContainsCTLByte(u) \/ ~ValidEscapes(p) THEN NilURL
      ELSE IF frag # <<>> /\ ~ValidEscapes(frag) THEN NilURL
      ELSE [nil |-> FALSE,
            Path |-> path,
            RawPath |-> IF escape(path, "path") = p THEN <<>> ELSE p,
            ForceQuery |-> force,
            RawQuery |-> query,
            Fragment |-> unescape(frag, "fragment"),
            RawFragment |->
              IF escape(unescape(frag, "fragment"), "fragment") = frag
                THEN <<>> ELSE frag]

\* (*URL).EscapedPath()
EscapedPath(u) ==
  IF /\ u.RawPath # <<>>
     /\ validEncoded(u.RawPath, "path")
     /\ ValidEscapes(u.RawPath)
     /\ unescape(u.RawPath, "path") = u.Path
    THEN u.RawPath
    ELSE escape(u.Path, "path")

\* (*URL).EscapedFragment()
EscapedFragment(u) ==
  IF /\ u.RawFragment # <<>>
     /\ validEncoded(u.RawFragment, "fragment")
     /\ ValidEscapes(u.RawFragment)
     /\ unescape(u.RawFragment, "fragment") = u.Fragment
    THEN u.RawFragment
    ELSE escape(u.Fragment, "fragment")

\* (*URL).String()
String(u) ==
  Endpoint
    \o EscapedPath(u)
    \o (IF u.ForceQuery \/ u.RawQuery # <<>> THEN B("?") \o u.RawQuery ELSE <<>>)
    \o (IF u.Fragment # <<>> THEN B("#") \o EscapedFragment(u) ELSE <<>>)

(***************************************************************************)
(* Time: time.Now() and format.                                            *)
(***************************************************************************)
\* A time.Time: an instant (seconds since the Unix epoch) and the offset of
\* its location in seconds east of UTC.  time.Now() is in the local zone.
DayNames == <<"Sun", "Mon", "Tue", "Wed", "Thu", "Fri", "Sat">>

MonthNames == <<"Jan", "Feb", "Mar", "Apr", "May", "Jun",
                "Jul", "Aug", "Sep", "Oct", "Nov", "Dec">>

\* (Time).UTC(): the same instant in the UTC location.
UTC(t) == [unix |-> t.unix, offset |-> 0]

\* The civil date [year, month, day] of a count of days since 1970-01-01.
CivilFromDays(days) ==
  LET z   == days + 719468
      era == z \div 146097
      doe == z - era * 146097
      yoe == (doe - doe \div 1460 + doe \div 36524 - doe \div 146096) \div 365
      doy == doe - (365 * yoe + yoe \div 4 - yoe \div 100)
      mp  == (5 * doy + 2) \div 153
      m   == IF mp < 10 THEN mp + 3 ELSE mp - 9
  IN  [year  |-> yoe + era * 400 + (IF m <= 2 THEN 1 ELSE 0),
       month |-> m,
       day   |-> doy - (153 * mp + 2) \div 5 + 1]

\* (Time).Format(time.RFC1123Z), layout "Mon, 02 Jan 2006 15:04:05 -0700":
\* the wall clock of the instant in the time's own location.
FormatRFC1123Z(t) ==
  LET wall == t.unix + t.offset
      days == wall \div 86400
      secs == wall % 86400
      date == CivilFromDays(days)
      off  == IF t.offset < 0 THEN 0 - t.offset ELSE t.offset
  IN  B(DayNames[((days + 4) % 7) + 1]) \o B(", ")
        \o Pad2(date.day) \o B(" ")
        \o B(MonthNames[date.month]) \o B(" ")
        \o Pad2(date.year \div 100) \o Pad2(date.year % 100) \o B(" ")
        \o Pad2(secs \div 3600) \o B(":")
        \o Pad2((secs % 3600) \div 60) \o B(":")
        \o Pad2(secs % 60) \o B(" ")
        \o (IF t.offset < 0 THEN B("-") ELSE B("+"))
        \o Pad2(off \div 3600) \o Pad2((off % 3600) \div 60)

\* A format that renders the local wall clock instead of UTC.
formatLocal(t) == FormatRFC1123Z(t)

\* func format(t time.Time) string
format(t) == FormatRFC1123Z(UTC(t))

(***************************************************************************)
(* mimeType.                                                               *)
(***************************************************************************)
\* filepath.Ext(name): the suffix from the last dot of the last path element.
Ext(name) ==
  LET dot   == LastIndexByte(name, Ord("."))
      slash == LastIndexByte(name, Ord("/"))
  IN  IF dot > slash THEN From(name, dot) ELSE <<>>

\* mime.TypeByExtension(ext): the extension table, "" for an unknown one.
TypeByExtension(ext) ==
  IF ext = B(".png") THEN B("image/png")
  ELSE IF ext = B(".pdf") THEN B("application/pdf")
  ELSE <<>>

\* func mimeType(name string) string
mimeType(name) == TypeByExtension(Ext(name))

(***************************************************************************)
(* Signing.                                                                *)
(***************************************************************************)
N == B("\n")

\* func sign(a aws.Auth, toSign string): base64(HMAC-SHA1(secret, toSign)),
\* kept as one uninterpreted symbol of the key and the message.  Neither the
\* hash nor the encoder into a buffer ever reports an error.
sign(a, toSign) ==
  [signature |-> <<[hmac |-> "sha1", key |-> a.SecretKey, msg |-> toSign]>>,
   err |-> FALSE]

\* The canonical string a signature was computed over.
SignedString(signature) == signature[1].msg

signGet(path, a, t) == sign(a, B("GET") \o N \o N \o N \o format(t) \o N \o path)

signPut(path, ct, a, t) ==
  sign(a, B("PUT") \o N \o N \o ct \o N \o format(t) \o N \o path)

signList(path, a, t) == sign(a, B("GET") \o N \o N \o N \o format(t) \o N \o path)

\* signDelete that renders the instant in its own zone.
signDeleteLocal(path, a, t) ==
  sign(a, B("DELETE") \o N \o N \o N \o FormatRFC1123Z(t) \o N \o path)

signDelete(path, a, t) ==
  sign(a, B("DELETE") \o N \o N \o N \o format(t) \o N \o path)

\* func esc(s string) string: the live branch is url.QueryEscape.
esc(s) == QueryEscape(s)

\* func createURL(o Object) (*url.URL, error)
createURL(o) == Parse(Endpoint \o B("/") \o esc(o.Bucket) \o B("/") \o esc(o.Key))

(***************************************************************************)
(* net/http as used by the request builders.                               *)
(***************************************************************************)
\* http.Header.Add(key, value)
HeaderAdd(h, k, v) ==
  IF k \in DOMAIN h THEN [h EXCEPT ![k] = Append(@, v)] ELSE h @@ (k :> <<v>>)

\* http.NewRequest(method, urlStr, body): the URL is parsed again; the
\* content length is taken from the body only when its length is known to
\* net/http (a *bytes.Buffer), else it is 0.
NewRequest(method, urlStr, knownLen) ==
  LET u == Parse(urlStr)
  IN  [err |-> u.nil,
       req |-> [Method |-> method, URL |-> u, Header |-> <<>>,
                ContentLength |-> knownLen]]

\* url.Values.Encode() of list's query: the keys in sorted order
\* (marker, max-keys, prefix), the values query-escaped.
Encode(req) ==
  (IF req.Marker # <<>> THEN B("marker=") \o QueryEscape(req.Marker) \o B("&") ELSE <<>>)
    \o B("max-keys=")
    \o (IF req.MaxKeys > 0 THEN QueryEscape(Decimal(req.MaxKeys)) ELSE B("1000"))
    \o (IF req.Prefix # <<>> THEN B("&prefix=") \o QueryEscape(req.Prefix) ELSE <<>>)

(***************************************************************************)
(* Results of an operation.                                                *)
(***************************************************************************)
\* A returned error: errors.New(msg), or an error passed through.
Fail(source, msg) == [kind |-> "error", source |-> source, msg |-> msg, value |-> "nil"]

\* A return without error.
Ok(value) == [kind |-> "ok", source |-> "none", msg |-> <<>>, value |-> value]

\* A run-time panic: the operation does not return.
Panic(msg) == [kind |-> "panic", source |-> "runtime", msg |-> msg, value |-> "nil"]

\* What one call did: the strings it signed, the requests it handed to the
\* transport, the state of the response body and of put's stream when the
\* call ended, the steps it executed, and what it returned.
Frame(signed, sent, body, stream, trace, result) ==
  [signed |-> signed, sent |-> sent, body |-> body, stream |-> stream,
   trace |-> trace, result |-> result]

\* The Authorization header value.
Authorization(auth, sig) == B("AWS ") \o auth.AccessKey \o B(":") \o sig

\* Date and Authorization added to a request.
WithAuth(hreq, auth, t, sig) ==
  [hreq EXCEPT !.Header =
     HeaderAdd(HeaderAdd(@, "Date", format(t)),
               "Authorization", Authorization(auth, sig))]

\* defer resp.Body.Close() taking effect at the return.
deferBodyClose(f) ==
  [f EXCEPT !.body = "closed", !.trace = Append(@, "Body.Close")]

(***************************************************************************)
(* The exchange with the server, common to the operations.                 *)
(***************************************************************************)
\* A run that ended before anything was handed to the transport.
Early(sd, stream0, trace, result) == Frame(sd, <<>>, "none", stream0, trace, result)

\* transport.RoundTrip(hreq) and the status test of list, get (only its
\* failure), put and putObject: a transport error is returned as it is, a
\* status other than 200 is errors.New(resp.Status) with the body closed by
\* the deferred Close, and otherwise the operation goes on with `rest`.
roundTrip200(sd, hreq, stream0, trace, net, rest) ==
  IF net.err
    THEN Frame(sd, <<hreq>>, "none", stream0, trace, Fail("transport", net.msg))
  ELSE IF net.StatusCode # 200
    THEN deferBodyClose(
           Frame(sd, <<hreq>>, "open", stream0, trace, Fail("status", net.Status)))
  ELSE deferBodyClose(rest)

(***************************************************************************)
(* list                                                                    *)
(***************************************************************************)
\* list lines 59-73: the round trip, the copy of the body, the decoding
\* whose error is dropped.
listResponse(sd, hreq, net) ==
  roundTrip200(sd, hreq, "none", <<"Parse", "sign", "NewRequest", "RoundTrip">>, net,
    IF net.readErr
      THEN Frame(sd, <<hreq>>, "open", "none",
                 <<"Parse", "sign", "NewRequest", "RoundTrip", "Copy">>,
                 Fail("read", B("unexpected EOF")))
      ELSE Frame(sd, <<hreq>>, "open", "none",
                 <<"Parse", "sign", "NewRequest", "RoundTrip", "Copy", "Unmarshal">>,
                 Ok(IF net.xmlOk THEN "decoded" ELSE "zero")))

\* list lines 48-58: the error tests after signing and after NewRequest.
listSigned(s, r, auth, t, net) ==
  IF s.err
    THEN Early(<<SignedString(s.signature)>>, "none", <<"Parse", "sign">>,
               Fail("sign", <<>>))
  ELSE IF r.err
    THEN Early(<<SignedString(s.signature)>>, "none",
               <<"Parse", "sign", "NewRequest">>, Fail("request", <<>>))
  ELSE listResponse(<<SignedString(s.signature)>>,
                    WithAuth(r.req, auth, t, s.signature), net)

\* list lines 46-53.  The error of url.Parse is overwritten unread, so a
\* failed parse leaves u nil and the evaluation of u.Path panics.
listParsed(u, auth, t, net) ==
  IF u.nil
    THEN Early(<<>>, "none", <<"Parse">>, Panic(B("nil pointer dereference")))
    ELSE listSigned(signList(u.Path, auth, t), NewRequest("GET", String(u), 0),
                    auth, t, net)

\* list after the bucket check (lines 34-46).
listRequest(auth, req, t, net) ==
  listParsed(Parse(Endpoint \o B("/") \o req.Bucket \o B("/?") \o Encode(req)),
             auth, t, net)

\* list without the test of the bucket name.
listUnchecked(auth, req, t, net) == listRequest(auth, req, t, net)

\* func list(auth aws.Auth, req ListRequest) (out ListBucketResult, err error)
list(auth, req, t, net) ==
  IF req.Bucket = <<>>
    THEN Early(<<>>, "none", <<>>, Fail("validation", B("no bucket name")))
    ELSE listRequest(auth, req, t, net)

(***************************************************************************)
(* get, getObject                                                          *)
(***************************************************************************)
\* get lines 97-104: the body of a response is closed on no path.
getResponse(sd, hreq, net) ==
  IF net.err
    THEN Frame(sd, <<hreq>>, "none", "none",
               <<"Parse", "sign", "NewRequest", "RoundTrip">>,
               Fail("transport", net.msg))
  ELSE IF net.StatusCode # 200
    THEN Frame(sd, <<hreq>>, "open", "none",
               <<"Parse", "sign", "NewRequest", "RoundTrip">>,
               Fail("status", net.Status))
  ELSE Frame(sd, <<hreq>>, "open", "none",
             <<"Parse", "sign", "NewRequest", "RoundTrip">>, Ok("body"))

\* get lines 86-96.
getSigned(s, r, auth, t, net) ==
  IF s.err
    THEN Early(<<SignedString(s.signature)>>, "none", <<"Parse", "sign">>,
               Fail("sign", <<>>))
  ELSE IF r.err
    THEN Early(<<SignedString(s.signature)>>, "none",
               <<"Parse", "sign", "NewRequest">>, Fail("request", <<>>))
  ELSE getResponse(<<SignedString(s.signature)>>,
                   WithAuth(r.req, auth, t, s.signature), net)

\* get lines 81-91.
getParsed(u, auth, t, net) ==
  IF u.nil
    THEN Early(<<>>, "none", <<"Parse">>, Fail("url", <<>>))
    ELSE getSigned(signGet(u.Path, auth, t), NewRequest("GET", String(u), 0),
                   auth, t, net)

\* func get(auth aws.Auth, req GetRequest) (io.ReadCloser, error)
get(auth, req, t, net) == getParsed(createURL(req.Object), auth, t, net)

\* getObject lines 137-145 on the outcome f of get: the copy of the body.
\* No path closes r.
getObjectCopy(f, net) ==
  IF f.result.kind # "ok" THEN f
  ELSE IF net.readErr
    THEN [f EXCEPT !.trace = Append(@, "Copy"),
                   !.result = Fail("read", B("unexpected EOF"))]
  ELSE [f EXCEPT !.trace = Append(@, "Copy"), !.result = Ok("bytes")]

\* func getObject(auth aws.Auth, req GetRequest) ([]byte, error)
getObject(auth, req, t, net) == getObjectCopy(get(auth, req, t, net), net)

(***************************************************************************)
(* del                                                                     *)
(***************************************************************************)
\* A delete that accepts 200 only.
delSuccessOnly200(code) == code = 200

\* The status test of del (line 129), negated: the statuses that succeed.
delSuccess(code) == ~(code < 200 \/ code >= 300)

\* del lines 124-132.
delResponse(sd, hreq, net) ==
  IF net.err
    THEN Frame(sd, <<hreq>>, "none", "none",
               <<"Parse", "sign", "NewRequest", "RoundTrip">>,
               Fail("transport", net.msg))
  ELSE IF ~delSuccess(net.StatusCode)
    THEN deferBodyClose(
           Frame(sd, <<hreq>>, "open", "none",
                 <<"Parse", "sign", "NewRequest", "RoundTrip">>,
                 Fail("status", net.Status)))
  ELSE deferBodyClose(
         Frame(sd, <<hreq>>, "open", "none",
               <<"Parse", "sign", "NewRequest", "RoundTrip">>, Ok("nil")))

\* del lines 113-123.
delSigned(s, r, auth, t, net) ==
  IF s.err
    THEN Early(<<SignedString(s.signature)>>, "none", <<"Parse", "sign">>,
               Fail("sign", <<>>))
  ELSE IF r.err
    THEN Early(<<SignedString(s.signature)>>, "none",
               <<"Parse", "sign", "NewRequest">>, Fail("request", <<>>))
  ELSE delResponse(<<SignedString(s.signature)>>,
                   WithAuth(r.req, auth, t, s.signature), net)

\* del lines 108-118.
delParsed(u, auth, t, net) ==
  IF u.nil
    THEN Early(<<>>, "none", <<"Parse">>, Fail("url", <<>>))
    ELSE delSigned(signDelete(u.Path, auth, t), NewRequest("DELETE", String(u), 0),
                   auth, t, net)

\* func del(auth aws.Auth, req DeleteRequest) (err error)
del(auth, req, t, net) == delParsed(createURL(req.Object), auth, t, net)

(***************************************************************************)
(* put, putObject                                                          *)
(***************************************************************************)
\* The Content-Type, Content-Length and Authorization headers of a PUT and
\* its ContentLength field (lines 164, 172-175 and 199, 207-210).  The
\* Content-Length header is string(n): the conversion of the integer.
putHeaders(hreq, auth, t, ct, n, sig) ==
  [hreq EXCEPT
     !.ContentLength = n,
     !.Header =
       HeaderAdd(
         HeaderAdd(
           HeaderAdd(HeaderAdd(@, "Date", format(t)), "Content-Type", ct),
           "Content-Length", RuneString(n)),
         "Authorization", Authorization(auth, sig))]

\* The content type of a PUT (lines 165-167 and 200-202).
resolveContentType(ct, key) == IF Len(ct) = 0 THEN mimeType(key) ELSE ct

\* A reader closed only when put succeeds.
closeReaderOnSuccess(f) ==
  IF f.result.kind = "ok"
    THEN [f EXCEPT !.stream = "closed", !.trace = Append(@, "reader.Close")]
    ELSE f

\* defer reader.Close() (line 159) taking effect at the return.
deferReaderClose(f) ==
  [f EXCEPT !.stream = "closed", !.trace = Append(@, "reader.Close")]

\* put lines 168-184 and putObject lines 203-219: the error test after
\* signing, the headers, the round trip.
putSigned(s, hreq0, auth, t, ct, n, stream0, trace, net) ==
  IF s.err
    THEN Early(<<SignedString(s.signature)>>, stream0, trace, Fail("sign", <<>>))
    ELSE roundTrip200(<<SignedString(s.signature)>>,
                      putHeaders(hreq0, auth, t, ct, n, s.signature),
                      stream0, Append(trace, "RoundTrip"), net,
                      Frame(<<SignedString(s.signature)>>,
                            <<putHeaders(hreq0, auth, t, ct, n, s.signature)>>,
                            "open", stream0, Append(trace, "RoundTrip"), Ok("nil")))

\* put lines 160-168 and putObject lines 195-203: the error test after
\* NewRequest, the content type, the signing.
putRequest(r, u, ct, auth, t, n, stream0, trace, net) ==
  IF r.err
    THEN Early(<<>>, stream0, Append(trace, "NewRequest"), Fail("request", <<>>))
    ELSE putSigned(signPut(u.Path, ct, auth, t), r.req, auth, t, ct, n, stream0,
                   trace \o <<"NewRequest", "sign">>, net)

\* put from the acquisition of the stream on (lines 160-184).
putStream(u, auth, req, t, net) ==
  putRequest(NewRequest("PUT", String(u), 0), u,
             resolveContentType(req.ContentType, req.Object.Key),
             auth, t, req.ReaderFact.Len, "open", <<"Parse", "CreateReader">>, net)

\* put lines 149-159.
putParsed(u, auth, req, t, net) ==
  IF u.nil
    THEN Early(<<>>, "none", <<"Parse">>, Fail("url", <<>>))
  ELSE IF req.ReaderFact.createErr
    THEN Early(<<>>, "none", <<"Parse", "CreateReader">>,
               Fail("factory", B("open failed")))
  ELSE deferReaderClose(putStream(u, auth, req, t, net))

\* func put(auth aws.Auth, req PutRequest) (err error)
put(auth, req, t, net) == putParsed(createURL(req.Object), auth, req, t, net)

\* putObject lines 188-195.
putObjectParsed(u, auth, req, t, net) ==
  IF u.nil
    THEN Early(<<>>, "none", <<"Parse">>, Fail("url", <<>>))
    ELSE putRequest(NewRequest("PUT", String(u), Len(req.Data)), u,
                    resolveContentType(req.ContentType, req.Object.Key),
                    auth, t, Len(req.Data), "none", <<"Parse">>, net)

\* func putObject(auth aws.Auth, req PutObjectRequest) (err error)
putObject(auth, req, t, net) ==
  putObjectParsed(createURL(req.Object), auth, req, t, net)

(***************************************************************************)
(* The inputs of the calls.                                                *)
(***************************************************************************)
MaxKeyLen == 2
MaxBucketLen == 2
MaxLen == 2
MaxMaxKeys == 2

\* All strings over an alphabet up to a length.
Strings(alphabet, max) == UNION {[1..n -> alphabet] : n \in 0..max}

Auths == {[AccessKey |-> B("AKID"), SecretKey |-> B("secret")]}

\* Tue, 01 Jan 2019 00:00:00 UTC seen from UTC, the second before it seen
\* from five hours west, and noon of Sat, 29 Feb 2020 seen from one hour east.
Times ==
  {[unix |-> 1546300800, offset |-> 0],
   [unix |-> 1546300799, offset |-> -18000],
   [unix |-> 1582977600, offset |-> 3600]}

Keys ==
  Strings({Ord("a"), Ord(" "), Ord("%")}, MaxKeyLen)
    \cup {B("mykey"), B("a.png"), B("a/b"), B("a b")}

Objects ==
  [Bucket : {B("mybucket")}, Key : Keys] \cup {[Bucket |-> B("b c"), Key |-> B("k")]}

ListBuckets ==
  Strings({Ord("b"), Ord("%"), Ord("2")}, MaxBucketLen) \cup {B("mybucket")}

ListRequests ==
  [Bucket : ListBuckets, MaxKeys : 0..MaxMaxKeys, Marker : {<<>>}, Prefix : {<<>>}]
    \cup [Bucket : ListBuckets, MaxKeys : {0}, Marker : {B("m k")}, Prefix : {B("p")}]

ContentTypes == {<<>>, B("text/plain")}

PutRequests ==
  [Object : Objects, ContentType : ContentTypes,
   ReaderFact : [Len : 0..MaxLen, createErr : BOOLEAN]]

PutObjectRequests ==
  [Object : Objects, ContentType : ContentTypes,
   Data : Strings({Ord("x")}, MaxLen)]

\* What the server answers.
Statuses ==
  {[StatusCode |-> 200, Status |-> B("200 OK")],
   [StatusCode |-> 204, Status |-> B("204 No Content")],
   [StatusCode |-> 300, Status |-> B("300 Multiple Choices")],
   [StatusCode |-> 404, Status |-> B("404 Not Found")]}

TransportError ==
  [err |-> TRUE, msg |-> B("connection refused"), StatusCode |-> 0,
   Status |-> <<>>, readErr |-> FALSE, xmlOk |-> FALSE]

\* The outcomes of transport.RoundTrip for an operation that does not read
\* the body: an error, or a response.
Responses ==
  {[err |-> FALSE, msg |-> <<>>, StatusCode |-> st.StatusCode,
    Status |-> st.Status, readErr |-> FALSE, xmlOk |-> TRUE] : st \in Statuses}

\* The outcomes for an operation that reads the body of a 200 response:
\* the read may fail, and the body may fail to decode.
ReadResponses ==
  Responses
    \cup {[err |-> FALSE, msg |-> <<>>, StatusCode |-> 200, Status |-> B("200 OK"),
           readErr |-> TRUE, xmlOk |-> TRUE],
          [err |-> FALSE, msg |-> <<>>, StatusCode |-> 200, Status |-> B("200 OK"),
           readErr |-> FALSE, xmlOk |-> FALSE]}

(***************************************************************************)
(* The state machine: one call at a time, each call one action.            *)
(***************************************************************************)
VARIABLES
  op,      \* the operation that ran, "idle" between calls
  args,    \* its request
  now,     \* the instant time.Now() returned in it
  net,     \* what the transport answered, had it been asked
  signed,  \* the canonical strings it signed
  sent,    \* the requests it handed to transport.RoundTrip
  body,    \* the response body: "none", "open" or "closed"
  stream,  \* put's stream: "none", "open" or "closed"
  trace,   \* the steps it executed, in order
  result   \* what it returned

vars == <<op, args, now, net, signed, sent, body, stream, trace, result>>

NoTime == [unix |-> 0, offset |-> 0]

Init ==
  /\ op = "idle"
  /\ args = <<>>
  /\ now = NoTime
  /\ net = TransportError
  /\ signed = <<>>
  /\ sent = <<>>
  /\ body = "none"
  /\ stream = "none"
  /\ trace = <<>>
  /\ result = Ok("nil")

\* The call of an operation with its outcome f.
Call(name, req, t, n, f) ==
  /\ op' = name
  /\ args' = req
  /\ now' = t
  /\ net' = n
  /\ signed' = f.signed
  /\ sent' = f.sent
  /\ body' = f.body
  /\ stream' = f.stream
  /\ trace' = f.trace
  /\ result' = f.result

List ==
  /\ op = "idle"
  /\ \E a \in Auths, req \in ListRequests, t \in Times,
        n \in ReadResponses \cup {TransportError} :
       Call("list", req, t, n, list(a, req, t, n))

Get ==
  /\ op = "idle"
  /\ \E a \in Auths, o \in Objects, t \in Times, n \in Responses \cup {TransportError} :
       Call("get", [Object |-> o], t, n, get(a, [Object |-> o], t, n))

GetObject ==
  /\ op = "idle"
  /\ \E a \in Auths, o \in Objects, t \in Times,
        n \in {r \in ReadResponses : r.xmlOk} \cup {TransportError} :
       Call("getObject", [Object |-> o], t, n, getObject(a, [Object |-> o], t, n))

Del ==
  /\ op = "idle"
  /\ \E a \in Auths, o \in Objects, t \in Times, n \in Responses \cup {TransportError} :
       Call("del", [Object |-> o], t, n, del(a, [Object |-> o], t, n))

Put ==
  /\ op = "idle"
  /\ \E a \in Auths, req \in PutRequests, t \in Times,
        n \in Responses \cup {TransportError} :
       Call("put", req, t, n, put(a, req, t, n))

PutObject ==
  /\ op = "idle"
  /\ \E a \in Auths, req \in PutObjectRequests, t \in Times,
        n \in Responses \cup {TransportError} :
       Call("putObject", req, t, n, putObject(a, req, t, n))

\* The caller takes the result; the next call starts from nothing shared.
Return ==
  /\ op # "idle"
  /\ op' = "idle"
  /\ args' = <<>>
  /\ now' = NoTime
  /\ net' = TransportError
  /\ signed' = <<>>
  /\ sent' = <<>>
  /\ body' = "none"
  /\ stream' = "none"
  /\ trace' = <<>>
  /\ result' = Ok("nil")

Next == List \/ Get \/ GetObject \/ Del \/ Put \/ PutObject \/ Return

Spec == Init /\ [][Next]_vars

(***************************************************************************)
(* Reading a canonical string and a date back.                             *)
(***************************************************************************)
\* The position of the k-th newline of s, 0 for k = 0.
NewlineAt(s, k) ==
  IF k = 0 THEN 0
  ELSE CHOOSE i \in 1..Len(s) :
         s[i] = 10 /\ Cardinality({j \in 1..(i - 1) : s[j] = 10}) = k - 1

\* The k-th of the five fields of a canonical string; the fifth, the path,
\* runs to the end.
Field(s, k) ==
  IF k = 5 THEN From(s, NewlineAt(s, 4) + 1)
  ELSE SubSeq(s, NewlineAt(s, k - 1) + 1, NewlineAt(s, k) - 1)

\* The number written by two decimal digits at position i of s.
Num2(s, i) == 10 * (s[i] - 48) + (s[i + 1] - 48)

\* The days since 1970-01-01 of a civil date.
DaysFromCivil(y, m, d) ==
  LET yy  == IF m <= 2 THEN y - 1 ELSE y
      era == yy \div 400
      yoe == yy - era * 400
      doy == (153 * (IF m > 2 THEN m - 3 ELSE m + 9) + 2) \div 5 + d - 1
      doe == yoe * 365 + yoe \div 4 - yoe \div 100 + doy
  IN  era * 146097 + doe - 719468

\* A date "Mon, 02 Jan 2006 15:04:05 -0700" read back: the instant, the
\* zone as written, and whether the weekday fits the date.
ReadRFC1123Z(d) ==
  LET month == CHOOSE m \in 1..12 : B(MonthNames[m]) = SubSeq(d, 9, 11)
      days  == DaysFromCivil(100 * Num2(d, 13) + Num2(d, 15), month, Num2(d, 6))
      zone  == (IF d[27] = Ord("-") THEN -1 ELSE 1)
                 * (3600 * Num2(d, 28) + 60 * Num2(d, 30))
  IN  [unix |-> 86400 * days + 3600 * Num2(d, 18) + 60 * Num2(d, 21)
                  + Num2(d, 24) - zone,
       zone |-> SubSeq(d, 27, 31),
       weekdayFits |-> SubSeq(d, 1, 5) = B(DayNames[((days + 4) % 7) + 1]) \o B(", ")]

\* http.Header.Get(key): the first value, "" when the key is absent.
HeaderGet(h, k) == IF k \in DOMAIN h THEN h[k][1] ELSE <<>>

\* The key of the object a get, del, put or putObject addresses.
KeyOf(a) == a.Object.Key

\* The path of the request line of a request handed to the transport.
RequestPath(hreq) == EscapedPath(hreq.URL)

\* s occurs in t as a contiguous substring.
Contains(t, s) ==
  \E i \in 1..(Len(t) - Len(s) + 1) : SubSeq(t, i, i + Len(s) - 1) = s

ObjectOps == {"get", "getObject", "del", "put", "putObject"}

(***************************************************************************)
(* C1                                                                      *)
(***************************************************************************)
\* C1: every request handed to the transport, by any operation, carries
\* exactly one Date header, and its value is, byte for byte, the date field
\* of the one canonical string signed in that call.
C1_DateMatchesSigned ==
  \A i \in 1..Len(sent) :
    /\ Len(signed) = 1
    /\ "Date" \in DOMAIN sent[i].Header
    /\ sent[i].Header["Date"] = <<Field(signed[1], 4)>>

\* A delete issued in a zone west of UTC reached the transport.
C1_Witness ==
  /\ op = "del"
  /\ now.offset < 0
  /\ Len(sent) = 1
  /\ result.kind = "ok"

(***************************************************************************)
(* C2                                                                      *)
(***************************************************************************)
\* C2: a put or putObject that reaches the transport sends a Content-Length
\* header whose value is the decimal rendering of the declared length
\* (ReaderFact.Len() or len(Data)), "0" included.
C2_ContentLengthIsDecimalLength ==
  (op \in {"put", "putObject"} /\ sent # <<>>) =>
    HeaderGet(sent[1].Header, "Content-Length")
      = Decimal(IF op = "put" THEN args.ReaderFact.Len ELSE Len(args.Data))

(***************************************************************************)
(* C3                                                                      *)
(***************************************************************************)
\* C3: for get, del, put and putObject the path that is signed is the very
\* path of the request sent, and a space of the key appears in it as %20,
\* never as +.
C3_SignedPathIsRequestPath ==
  (op \in ObjectOps /\ sent # <<>>) =>
    /\ Field(signed[1], 5) = RequestPath(sent[1])
    /\ Contains(KeyOf(args), B(" ")) =>
         /\ Contains(RequestPath(sent[1]), B("%20"))
         /\ ~Contains(RequestPath(sent[1]), B("+"))

(***************************************************************************)
(* C4                                                                      *)
(***************************************************************************)
\* C4: whenever getObject obtained a response body, the body is closed by
\* the time getObject returns, after a full read and after a read error.
C4_GetObjectClosesBody ==
  (op = "getObject" /\ "Copy" \in {trace[i] : i \in 1..Len(trace)}) =>
    body = "closed"

(***************************************************************************)
(* C5                                                                      *)
(***************************************************************************)
\* C5 as stated: del succeeds on a status in [200,300), and every other
\* outcome, transport errors included, is a failure whose message is the
\* HTTP status text.
C5_DeleteFailureIsStatusText ==
  op = "del" =>
    IF ~net.err /\ net.StatusCode >= 200 /\ net.StatusCode < 300
      THEN result.kind = "ok"
      ELSE /\ result.kind = "error"
           /\ result.source = "status"
           /\ result.msg = net.Status

\* C5 amended: del succeeds on a status in [200,300) (204 among them); a
\* response with any other status fails with the HTTP status text of that
\* response ("404 Not Found" for a 404); a transport error fails with the
\* transport's own error, passed through as it is.
C5_DeleteOutcome ==
  op = "del" =>
    /\ (~net.err /\ net.StatusCode >= 200 /\ net.StatusCode < 300)
         => result = Ok("nil")
    /\ (~net.err /\ ~(net.StatusCode >= 200 /\ net.StatusCode < 300))
         => result = Fail("status", net.Status)
    /\ (~net.err /\ net.StatusCode = 404)
         => result.msg = B("404 Not Found")
    /\ net.err => result = Fail("transport", net.msg)

\* A delete answered 204 succeeded.
C5_Witness ==
  /\ op = "del"
  /\ ~net.err
  /\ net.StatusCode = 204
  /\ result.kind = "ok"
  /\ body = "closed"

(***************************************************************************)
(* C6                                                                      *)
(***************************************************************************)
\* The verb an operation signs.
VerbOf(o) ==
  IF o = "del" THEN B("DELETE")
  ELSE IF o \in {"put", "putObject"} THEN B("PUT")
  ELSE B("GET")

\* C6: the canonical string signed is VERB, newline, an empty field,
\* newline, CONTENT-TYPE, newline, DATE, newline, PATH.  CONTENT-TYPE is
\* empty but for a PUT, where it is the content type sent (the one given,
\* else the one of the key's extension); DATE is the captured instant in
\* RFC 1123 with numeric zone, in UTC; PATH is the path of the URL without
\* the query the request carries; and get of /mybucket/mykey at
\* Tue, 01 Jan 2019 00:00:00 +0000 signs exactly the string of the example.
C6_CanonicalString ==
  \A i \in 1..Len(signed) :
    /\ Cardinality({j \in 1..Len(signed[i]) : signed[i][j] = 10}) = 4
    /\ Field(signed[i], 1) = VerbOf(op)
    /\ Field(signed[i], 2) = <<>>
    /\ op \notin {"put", "putObject"} => Field(signed[i], 3) = <<>>
    /\ op \in {"put", "putObject"} =>
         /\ sent # <<>> => sent[1].Header["Content-Type"] = <<Field(signed[i], 3)>>
         /\ args.ContentType # <<>> => Field(signed[i], 3) = args.ContentType
         /\ (args.ContentType = <<>> /\ KeyOf(args) = B("a.png"))
              => Field(signed[i], 3) = B("image/png")
         /\ (args.ContentType = <<>> /\ ~Contains(KeyOf(args), B(".")))
              => Field(signed[i], 3) = <<>>
    /\ Len(Field(signed[i], 4)) = 31
    /\ ReadRFC1123Z(Field(signed[i], 4)) =
         [unix |-> now.unix, zone |-> B("+0000"), weekdayFits |-> TRUE]
    /\ sent # <<>> => Field(signed[i], 5) = sent[1].URL.Path
    /\ (op = "list" /\ sent # <<>>) =>
         /\ sent[1].URL.RawQuery = Encode(args)
         /\ ~Contains(signed[i], B("max-keys"))
    /\ ( /\ op = "get"
         /\ args.Object = [Bucket |-> B("mybucket"), Key |-> B("mykey")]
         /\ now.unix = 1546300800 )
         => signed[i] = B("GET\n\n\nTue, 01 Jan 2019 00:00:00 +0000\n/mybucket/mykey")

\* A put without a content type, of a key with a known extension, signed at
\* an instant whose zone is not UTC.
C6_Witness ==
  /\ op = "put"
  /\ args.ContentType = <<>>
  /\ KeyOf(args) = B("a.png")
  /\ now.offset # 0
  /\ Len(signed) = 1
  /\ Len(sent) = 1

(***************************************************************************)
(* C7                                                                      *)
(***************************************************************************)
\* C7: when put returns, the stream is closed if and only if it was
\* acquired, on every path, and the close is the last thing put does; a put
\* that failed before or during the acquisition holds no stream.
C7_PutClosesStream ==
  op = "put" =>
    /\ stream \in {"none", "closed"}
    /\ stream = "closed" <=> ~args.ReaderFact.createErr
    /\ args.ReaderFact.createErr =>
         /\ result = Fail("factory", B("open failed"))
         /\ sent = <<>>
    /\ stream = "closed" => trace[Len(trace)] = "reader.Close"

\* A put whose stream was acquired and whose request was answered with a
\* status other than 200.
C7_Witness ==
  /\ op = "put"
  /\ result.source = "status"
  /\ stream = "closed"

(***************************************************************************)
(* C8                                                                      *)
(***************************************************************************)
\* C8: list of an empty bucket name returns the validation error and has
\* executed no step: nothing parsed, signed, built or handed to the
\* transport.
C8_EmptyBucketFailsFast ==
  (op = "list" /\ args.Bucket = <<>>) =>
    /\ result = Fail("validation", B("no bucket name"))
    /\ signed = <<>>
    /\ sent = <<>>
    /\ trace = <<>>
    /\ body = "none"

\* A list of the empty bucket name, with a transport that would have
\* answered 200.
C8_Witness ==
  /\ op = "list"
  /\ args.Bucket = <<>>
  /\ ~net.err
  /\ net.StatusCode = 200
  /\ result.kind = "error"

(***************************************************************************)
(* C9                                                                      *)
(***************************************************************************)
\* C9: every response body the transport returned to list, get, del, put
\* or putObject is closed when the operation returns, but for the body a
\* successful get hands to its caller.
C9_BodiesClosed ==
  (op \in {"list", "get", "del", "put", "putObject"} /\ body # "none") =>
    \/ body = "closed"
    \/ (op = "get" /\ result = Ok("body"))

(***************************************************************************)
(* C10                                                                     *)
(***************************************************************************)
\* C10: every failing step of list makes list return an error with no later
\* step executed; a list whose URL does not parse returns an error, having
\* neither signed nor issued a request.
C10_ListReturnsEveryFailure ==
  op = "list" =>
    /\ result.kind \in {"ok", "error"}
    /\ Parse(Endpoint \o B("/") \o args.Bucket \o B("/?") \o Encode(args)).nil =>
         /\ result.kind = "error"
         /\ signed = <<>>
         /\ sent = <<>>
    /\ result.kind = "ok" <=>
         trace = <<"Parse", "sign", "NewRequest", "RoundTrip", "Copy", "Unmarshal",
                   "Body.Close">>

====
